---- MODULE Spec2Model ----
(***************************************************************************)
(* Noted browser extension: the link-state reconciliation between the      *)
(* popup (class NotedPopup), the background service worker (oauthState,    *)
(* checkOAuthCompletion, startOAuthMonitoring) and the backend relay.      *)
(*                                                                         *)
(* The client state is kept in one record per object:                      *)
(*   popup  the NotedPopup instance and the DOM elements it drives          *)
(*   sync   chrome.storage.sync  (userId, openaiApiKey, openaiKeyValid)     *)
(*   local  chrome.storage.local (lastConnectedUser, lastConnectionTime)    *)
(*   bg     the service worker (oauthState, oauthCheckInterval)             *)
(*   loads  results of un-awaited loadStoredUserId() calls not yet applied  *)
(*   timers pending setTimeout callbacks of the popup, and "save" while    *)
(*          summarizeCurrentPage waits for the answer of POST /notion/save  *)
(*   pollers, ticks    the setInterval loops of startOAuthCompletionPolling *)
(*                     and their callbacks in flight                        *)
(*   bgTicks           checkOAuthCompletion calls of the service worker in  *)
(*                     flight                                               *)
(* A "world" w is the record of these.  Every piece of a handler that runs  *)
(* between two remote calls is an operator from world to world; the         *)
(* actions apply these operators, one after the other (Spec: a handler runs *)
(* to completion) or interleaved at the remote calls (PollSpec, MonitorSpec).  *)
(*   remote the backend relay;  hist  history kept for stating properties.  *)
(***************************************************************************)
EXTENDS Naturals, Integers, FiniteSets, Sequences, TLC

VARIABLES popup, sync, local, bg, loads, timers, pollers, ticks, bgTicks, remote, hist

vars == <<popup, sync, local, bg, loads, timers, pollers, ticks, bgTicks, remote, hist>>

---------------------------------------------------------------------------
(* Identifiers.  A remote id is the 36-character id issued by the identity *)
(* provider; Tmp is the 16-character placeholder of loadStoredUserId.      *)

Owner == "u1"
Other == "u2"
Users == {Owner, Other}
Tmp == "tmp"
NoId == "null"
Ids == Users \cup {Tmp}

IdLength(id) == IF id = NoId THEN 0 ELSE IF id = Tmp THEN 16 ELSE 36

\* An OpenAI key is a string of characters; NoKey: no key, or the empty string.
NoKey == <<>>
Keys == {<<"s", "k">>}

\* String.prototype.repeat of a one-character string: a RangeError for a
\* negative count
repeat(c, count) ==
    IF count < 0 THEN [ok |-> FALSE, value |-> <<>>]
    ELSE [ok |-> TRUE, value |-> [i \in 1..count |-> c]]

\* maskApiKey, with "*" for the mask character; ok is FALSE when it throws
maskApiKey(key) ==
    IF key = NoKey \/ Len(key) < 8 THEN [ok |-> TRUE, value |-> key]
    ELSE LET start  == SubSeq(key, 1, 7)
             end    == SubSeq(key, Len(key) - 4 + 1, Len(key))
             middle == repeat("*", IF 32 < Len(key) - 11 THEN 32 ELSE Len(key) - 11)
         IN  IF middle.ok THEN [ok |-> TRUE, value |-> start \o middle.value \o end]
             ELSE [ok |-> FALSE, value |-> <<>>]

\* The key field: its value and its data-is-masked attribute.
EmptyField == [value |-> NoKey, masked |-> FALSE]

Reasons == {"invalid_token", "no_token", "none"}

\* The optional fields of a connected:false answer of /user/{id}/status.
Extras == [reason : Reasons, action : BOOLEAN]

NoData == [status |-> "none", userId |-> NoId]
Success(u) == [status |-> "success", userId |-> u]

---------------------------------------------------------------------------
(* The backend relay, as the client observes it.                           *)

\* GET /user/{id}/status
statusResponse(r, id, x) ==
    IF ~r.up THEN [kind |-> "throw", connected |-> FALSE, reason |-> "none", action |-> FALSE]
    ELSE IF ~r.statusOk THEN [kind |-> "http", connected |-> FALSE, reason |-> "none", action |-> FALSE]
    ELSE IF id \in r.linked THEN [kind |-> "ok", connected |-> TRUE, reason |-> "none", action |-> FALSE]
    ELSE [kind |-> "ok", connected |-> FALSE, reason |-> x.reason, action |-> x.action]

\* GET /oauth/check-completion
completionResponse(r) ==
    IF ~r.up THEN [kind |-> "throw", has_users |-> FALSE, latest_user_id |-> NoId]
    ELSE [kind |-> "ok", has_users |-> r.latest # NoId, latest_user_id |-> r.latest]

\* GET /
pingResponse(r) == r.up

---------------------------------------------------------------------------
(* NotedPopup: the synchronous pieces.                                      *)

World == [popup |-> popup, sync |-> sync, local |-> local, bg |-> bg, loads |-> loads,
          timers |-> timers, pollers |-> pollers, ticks |-> ticks, bgTicks |-> bgTicks]

ButtonReset == [disabled |-> FALSE, text |-> "Connect to Notion", connecting |-> FALSE, connected |-> FALSE]
ButtonConnected == [disabled |-> TRUE, text |-> "Connected to Notion", connecting |-> FALSE, connected |-> TRUE]
ButtonConnecting(b) == [b EXCEPT !.disabled = TRUE, !.text = "Connecting...", !.connecting = TRUE]

showMessage(w, m) == [w EXCEPT !.popup.message = m]

\* an updateUIState that leaves a button marked connected as it is
updateUIStateSticky(w) ==
    LET isConnectedToNotion == w.popup.backendConnected /\ w.popup.status = "connected"
        hasValidOpenaiKey == w.sync.openaiApiKey # NoKey /\ w.sync.openaiKeyValid
        enable == w.popup.backendConnected /\ isConnectedToNotion /\ hasValidOpenaiKey
    IN  [w EXCEPT !.popup.summarizeDisabled = ~enable,
                  !.popup.btn = IF isConnectedToNotion \/ @.connected
                                THEN [@ EXCEPT !.disabled = TRUE, !.text = "Connected to Notion",
                                               !.connecting = FALSE, !.connected = TRUE]
                                ELSE IF ~@.connecting THEN ButtonReset ELSE @]

updateUIState(w) ==
    LET isConnectedToNotion == w.popup.backendConnected /\ w.popup.status = "connected"
        hasValidOpenaiKey == w.sync.openaiApiKey # NoKey /\ w.sync.openaiKeyValid
        enable == w.popup.backendConnected /\ isConnectedToNotion /\ hasValidOpenaiKey
    IN  [w EXCEPT !.popup.summarizeDisabled = ~enable,
                  !.popup.btn = IF isConnectedToNotion
                                THEN [@ EXCEPT !.disabled = TRUE, !.text = "Connected to Notion",
                                               !.connecting = FALSE, !.connected = TRUE]
                                ELSE IF ~@.connecting THEN ButtonReset ELSE @]

clearStoredSettings(w) ==
    [w EXCEPT !.sync.openaiApiKey = NoKey, !.sync.openaiKeyValid = FALSE,
              !.popup.field.value = NoKey]

\* loadSettings: the catch block when maskApiKey throws
loadSettings(w) ==
    IF w.sync.openaiApiKey # NoKey /\ w.sync.openaiKeyValid
    THEN LET m == maskApiKey(w.sync.openaiApiKey)
         IN  IF m.ok THEN [w EXCEPT !.popup.field = [value |-> m.value, masked |-> TRUE]]
             ELSE w
    ELSE [w EXCEPT !.popup.field.value = w.sync.openaiApiKey]

\* loadStoredUserId up to its await: the read is issued, its result applied later.
generateUserId(w) ==
    [w EXCEPT !.loads = @ \cup {IF w.sync.userId # NoId THEN w.sync.userId ELSE Tmp}]

\* loadStoredUserId after its await.
loadStoredUserId(w, v) ==
    [w EXCEPT !.popup.userId = v, !.loads = @ \ {v}]

\* loadStoredUserId when chrome.storage.sync.get throws: the catch block
loadStoredUserIdFailed(w, v) ==
    [w EXCEPT !.loads = @ \ {v}]

setNotionUserId(w, u) ==
    [w EXCEPT !.popup.userId = u, !.sync.userId = u]

showConnectedState(w) ==
    LET w1 == updateUIState([w EXCEPT !.popup.status = "connected"])
    IN  IF ~w1.popup.wasConnected
        THEN [showMessage(w1, "connected") EXCEPT !.popup.wasConnected = TRUE]
        ELSE w1

showDisconnectedState(w) ==
    clearStoredSettings(updateUIState(
        [w EXCEPT !.popup.status = "disconnected", !.popup.wasConnected = FALSE]))

forceDisconnectedState(w) ==
    LET w1 == generateUserId([w EXCEPT !.sync.userId = NoId, !.popup.userId = NoId])
        w2 == [w1 EXCEPT !.popup.status = "disconnected", !.popup.wasConnected = FALSE,
                         !.popup.btn = ButtonReset]
    IN  updateUIState(clearStoredSettings(w2))

clearExtensionStorage(w) ==
    [w EXCEPT !.sync.userId = NoId, !.sync.openaiApiKey = NoKey, !.sync.openaiKeyValid = FALSE,
              !.popup.userId = NoId, !.popup.field.value = NoKey]

testBackendConnection(w, ok) == [w EXCEPT !.popup.backendConnected = ok]

---------------------------------------------------------------------------
(* Bounds of the model.                                                    *)

\* Polling loops of the popup that can exist side by side.
MaxPollers == 2
\* Callbacks of the popup's polling loops that can be in flight at once.
MaxTicks == 2
\* checkOAuthCompletion calls of the service worker in flight at once.
MaxBgTicks == 2
\* maxAttempts of startOAuthCompletionPolling, scaled down: the source sets
\* 20 (15 in the localhost variant) and only compares attempts with it.
maxAttempts == 3

\* stale: history, the ids the backend held as linked when the loop was started
IdlePoller == [active |-> FALSE, attempts |-> 0, stale |-> {}]
\* A callback in flight: of loop poller, its n-th, waiting at pc for the answer
\* of the request it made about arg.
IdleTick == [poller |-> 0, n |-> 0, pc |-> "idle", arg |-> NoId]
IdleBgTick == [pc |-> "idle", arg |-> NoId, stale |-> FALSE]

\* The categories of the backend's answer and of categorySelect; NoCategory:
\* the answer has no category field.
Categories == {"Technology", "General News"}
NoCategory == "none"

\* The answers of POST /summarize-and-categorize.
CategorizeAnswers ==
    {[ok |-> FALSE, category |-> NoCategory]}
        \cup {[ok |-> TRUE, category |-> c] : c \in Categories \cup {NoCategory}}

\* No summarizeCurrentPage is running.  summaries, saves: history, the
\* requests made by the last call; sent: the category of its save request.
IdleFlow == [pc |-> "idle", detected |-> NoCategory, selected |-> NoCategory,
             changing |-> FALSE, final |-> NoCategory, sent |-> NoCategory,
             summaries |-> 0, saves |-> 0]

---------------------------------------------------------------------------
(* The service worker's message handlers (chrome.runtime.onMessage).       *)

stopOAuthMonitoring(w) == [w EXCEPT !.bg.interval = FALSE]

startOAuthMonitoring(w) == [w EXCEPT !.bg.interval = TRUE]

\* history: the calls in flight now belong to a session that is over
Supersede(w) ==
    [w EXCEPT !.bgTicks = [k \in DOMAIN @ |->
                              IF @[k].pc = "idle" THEN @[k] ELSE [@[k] EXCEPT !.stale = TRUE]]]

startOAuth(w) ==
    startOAuthMonitoring(Supersede(
        [w EXCEPT !.bg.oauthState = [isInProgress |-> TRUE, completionData |-> NoData],
                  !.bg.notified = 0]))

clearOAuthState(w) ==
    stopOAuthMonitoring(Supersede(
        [w EXCEPT !.bg.oauthState = [isInProgress |-> FALSE, completionData |-> NoData]]))

getOAuthStatus(w) == w.bg.oauthState

---------------------------------------------------------------------------
(* NotedPopup: the reconcile procedures, cut at their remote calls.        *)

\* checkNotionConnection after the answer of /user/{id}/status
checkNotionConnectionResume(w, resp) ==
    IF resp.kind = "throw" THEN showDisconnectedState(w)
    ELSE IF resp.kind = "http" THEN showDisconnectedState(forceDisconnectedState(w))
    ELSE IF ~resp.connected
    THEN LET w1 == IF resp.reason \in {"invalid_token", "no_token"}
                   THEN clearStoredSettings(generateUserId(
                            [w EXCEPT !.sync.userId = NoId, !.popup.userId = NoId]))
                   ELSE w
             w2 == IF resp.action THEN clearExtensionStorage(w1) ELSE w1
         IN  showDisconnectedState(w2)
    ELSE showConnectedState(w)

checkNotionConnection(w, r, x) ==
    IF w.popup.userId = NoId THEN showDisconnectedState(w)
    ELSE checkNotionConnectionResume(w, statusResponse(r, w.popup.userId, x))

\* detectRealUser after the answer of /oauth/check-completion: the id to verify
detectCandidate(w, cresp) ==
    IF cresp.kind = "ok" /\ cresp.has_users /\ cresp.latest_user_id # NoId
       /\ cresp.latest_user_id # w.popup.userId
    THEN cresp.latest_user_id
    ELSE NoId

\* a detectRealUser that takes the candidate without looking at its status
detectedUnverified(cand, sresp) == cand # NoId

\* detectRealUser's result, after the answer of /user/{candidate}/status
detected(cand, sresp) == cand # NoId /\ sresp.kind = "ok" /\ sresp.connected

detectRealUser(w, r, x) ==
    LET cand == detectCandidate(w, completionResponse(r))
    IN  IF detected(cand, statusResponse(r, cand, x)) THEN setNotionUserId(w, cand) ELSE w

detectRealUserResult(w, r, x) ==
    LET cand == detectCandidate(w, completionResponse(r))
    IN  detected(cand, statusResponse(r, cand, x))

\* a checkForMissedOAuth that adopts a recent record without asking for its status
checkForMissedOAuthUnverified(w, r, x) ==
    IF w.local.lastConnectedUser # NoId /\ w.local.recent
    THEN showMessage(updateUIState(setNotionUserId(w, w.local.lastConnectedUser)),
                     "connected")
    ELSE w

checkForMissedOAuth(w, r, x) ==
    IF w.local.lastConnectedUser # NoId /\ w.local.recent
    THEN LET resp == statusResponse(r, w.local.lastConnectedUser, x)
         IN  IF resp.kind = "ok" /\ resp.connected
             THEN showMessage(updateUIState(setNotionUserId(w, w.local.lastConnectedUser)),
                              "connected")
             ELSE w
    ELSE w

\* init and checkAllConnections when GET / fails
backendDown(w) ==
    updateUIState(clearStoredSettings(
        [testBackendConnection(w, FALSE) EXCEPT !.popup.status = "disconnected"]))

checkAllConnections(w, r, x) ==
    IF ~pingResponse(r) THEN backendDown(w)
    ELSE LET w0 == testBackendConnection(w, TRUE)
             w1 == IF detectRealUserResult(w0, r, x)
                   THEN detectRealUser(w0, r, x)
                   ELSE checkNotionConnection(w0, r, x)
         IN  checkForMissedOAuth(w1, r, x)

processCompletedOAuth(w, completionData) ==
    LET w1 == clearOAuthState(setNotionUserId(w, completionData.userId))
    IN  [showMessage(w1, "connected") EXCEPT !.timers = @ \cup {"checkNotionConnection"}]

\* the popup's checkOAuthCompletion: asks the service worker
checkOAuthCompletionResult(w) == getOAuthStatus(w).completionData.status = "success"

checkOAuthCompletion(w) ==
    IF checkOAuthCompletionResult(w)
    THEN processCompletedOAuth(w, getOAuthStatus(w).completionData)
    ELSE w

---------------------------------------------------------------------------
(* NotedPopup: the polling loop of startOAuthCompletionPolling.            *)

TicksOf(w, i) == {t \in w.ticks : t.poller = i}

FreePollers(w) == {i \in DOMAIN w.pollers : ~w.pollers[i].active /\ TicksOf(w, i) = {}}

HasFreePoller(w) == FreePollers(w) # {}

NewPoller(w) == CHOOSE i \in FreePollers(w) : \A j \in FreePollers(w) : i <= j

startOAuthCompletionPolling(w) ==
    IF HasFreePoller(w)
    THEN [w EXCEPT !.pollers[NewPoller(w)] = [IdlePoller EXCEPT !.active = TRUE]]
    ELSE w

\* The closure of a loop whose interval is cleared and whose callbacks have
\* all returned is unreachable: its slot is free again.
collect(w) ==
    [w EXCEPT !.pollers = [i \in DOMAIN @ |->
                              IF ~@[i].active /\ TicksOf(w, i) = {} THEN IdlePoller ELSE @[i]]]

\* clearInterval(pollInterval) and the button of a detected connection
pollSuccess(w, t) ==
    [w EXCEPT !.pollers[t.poller].active = FALSE,
              !.popup.btn = [@ EXCEPT !.disabled = TRUE, !.text = "Connected to Notion",
                                      !.connecting = FALSE, !.connected = TRUE]]

\* an end of a tick that clears the interval and leaves the button as it is
pollTimeoutKeepsButton(w, t, shown) ==
    IF w.pollers[t.poller].attempts >= maxAttempts
    THEN [w EXCEPT !.pollers[t.poller].active = FALSE]
    ELSE w

\* the end of a tick: "if (attempts >= maxAttempts)", in the try block
\* (shown = TRUE, with the timeout message) and in the catch block
pollTimeout(w, t, shown) ==
    IF w.pollers[t.poller].attempts >= maxAttempts
    THEN [w EXCEPT !.pollers[t.poller].active = FALSE,
                   !.popup.btn = ButtonReset,
                   !.popup.message = IF shown THEN "timeout" ELSE @]
    ELSE w

\* "await this.checkNotionConnection()" of a tick, up to its fetch
pollEnterCheck(w, t) ==
    IF w.popup.userId = NoId
    THEN [w |-> showDisconnectedState(w), t |-> IdleTick]
    ELSE [w |-> w, t |-> [t EXCEPT !.pc = "check", !.arg = w.popup.userId]]

\* "if (this.userId)" of a tick, up to its fetch
pollEnterFallback(w, t) ==
    IF w.popup.userId # NoId
    THEN [w |-> w, t |-> [t EXCEPT !.pc = "fallback", !.arg = w.popup.userId]]
    ELSE [w |-> pollTimeout(w, t, TRUE), t |-> IdleTick]

\* a tick of poller i, up to its first fetch
pollStart(w, i) ==
    LET w0 == [w EXCEPT !.pollers[i].attempts = @ + 1]
        t  == [poller |-> i, n |-> w0.pollers[i].attempts, pc |-> "detect", arg |-> NoId]
    IN  IF checkOAuthCompletionResult(w0)
        THEN pollEnterCheck(pollSuccess(checkOAuthCompletion(w0), t), t)
        ELSE [w |-> w0, t |-> t]

\* a tick in flight, from the answer it waits for up to its next fetch
pollStep(w, t, r, x) ==
    CASE t.pc = "detect" ->
            LET cand == detectCandidate(w, completionResponse(r))
            IN  IF cand # NoId
                THEN [w |-> w, t |-> [t EXCEPT !.pc = "verify", !.arg = cand]]
                ELSE pollEnterFallback(w, t)
      [] t.pc = "verify" ->
            IF detected(t.arg, statusResponse(r, t.arg, x))
            THEN pollEnterCheck(pollSuccess(setNotionUserId(w, t.arg), t), t)
            ELSE pollEnterFallback(w, t)
      [] t.pc = "fallback" ->
            LET resp == statusResponse(r, t.arg, x)
            IN  IF resp.kind = "throw" THEN [w |-> pollTimeout(w, t, FALSE), t |-> IdleTick]
                ELSE IF resp.kind = "ok" /\ resp.connected THEN pollEnterCheck(pollSuccess(w, t), t)
                ELSE [w |-> pollTimeout(w, t, TRUE), t |-> IdleTick]
      [] t.pc = "check" ->
            [w |-> checkNotionConnectionResume(w, statusResponse(r, t.arg, x)), t |-> IdleTick]
      [] OTHER -> [w |-> w, t |-> t]

\* a whole tick, its remote calls answered at once
pollRun(w, i, r, x) ==
    LET s0 == pollStart(w, i)
        s1 == pollStep(s0.w, s0.t, r, x)
        s2 == pollStep(s1.w, s1.t, r, x)
        s3 == pollStep(s2.w, s2.t, r, x)
        s4 == pollStep(s3.w, s3.t, r, x)
    IN  collect(s4.w)

---------------------------------------------------------------------------
(* The service worker's checkOAuthCompletion, cut at its remote calls.     *)

\* a checkOAuthCompletion that records the completion and leaves isInProgress set
bgStepKeepsProgress(w, t, r, x) ==
    CASE t.pc = "completion" ->
            LET cresp == completionResponse(r)
            IN  IF cresp.kind = "ok" /\ cresp.has_users /\ cresp.latest_user_id # NoId
                THEN [w |-> w, t |-> [t EXCEPT !.pc = "status", !.arg = cresp.latest_user_id]]
                ELSE [w |-> w, t |-> IdleBgTick]
      [] t.pc = "status" ->
            LET resp == statusResponse(r, t.arg, x)
            IN  IF resp.kind # "throw" /\ resp.connected
                THEN [w |-> [w EXCEPT !.local = [lastConnectedUser |-> t.arg, recent |-> TRUE],
                                      !.bg.oauthState.completionData = Success(t.arg),
                                      !.bg.notified = @ + 1],
                      t |-> IdleBgTick]
                ELSE [w |-> w, t |-> IdleBgTick]
      [] OTHER -> [w |-> w, t |-> t]

bgStep(w, t, r, x) ==
    CASE t.pc = "completion" ->
            LET cresp == completionResponse(r)
            IN  IF cresp.kind = "ok" /\ cresp.has_users /\ cresp.latest_user_id # NoId
                THEN [w |-> w, t |-> [t EXCEPT !.pc = "status", !.arg = cresp.latest_user_id]]
                ELSE [w |-> w, t |-> IdleBgTick]
      [] t.pc = "status" ->
            LET resp == statusResponse(r, t.arg, x)
            IN  IF resp.kind # "throw" /\ resp.connected
                THEN [w |-> [w EXCEPT !.local = [lastConnectedUser |-> t.arg, recent |-> TRUE],
                                      !.bg.oauthState = [isInProgress |-> FALSE,
                                                         completionData |-> Success(t.arg)],
                                      !.bg.notified = @ + 1],
                      t |-> IdleBgTick]
                ELSE [w |-> w, t |-> IdleBgTick]
      [] OTHER -> [w |-> w, t |-> t]

bgRun(w, r, x) ==
    LET t0 == [pc |-> "completion", arg |-> NoId, stale |-> FALSE]
        s1 == bgStep(w, t0, r, x)
        s2 == bgStep(s1.w, s1.t, r, x)
    IN  s2.w

---------------------------------------------------------------------------
(* NotedPopup: the handlers of user actions.                               *)

connectToNotion(w) ==
    LET w1 == generateUserId([w EXCEPT !.sync.userId = NoId,
                                       !.local = [lastConnectedUser |-> NoId, recent |-> FALSE],
                                       !.popup.userId = NoId])
        w2 == clearOAuthState([w1 EXCEPT !.popup.btn = ButtonConnecting(@)])
        w3 == showMessage([w2 EXCEPT !.timers = @ \cup {"startOAuth"}], "connecting")
    IN  startOAuthCompletionPolling(w3)

forceReset(w) ==
    LET w1 == [w EXCEPT !.sync = [userId |-> NoId, openaiApiKey |-> NoKey, openaiKeyValid |-> FALSE],
                        !.local = [lastConnectedUser |-> NoId, recent |-> FALSE],
                        !.popup.userId = NoId, !.popup.backendConnected = FALSE,
                        !.popup.btn = ButtonReset,
                        !.popup.status = "disconnected", !.popup.wasConnected = FALSE,
                        !.popup.field.value = NoKey]
    IN  showMessage(updateUIState(w1), "reset")

\* the input handler of the key field, after the user has made the field k.
\* history: edited, and stale for the saveSettings in flight at this edit
keyInput(w, k) ==
    updateUIState([w EXCEPT !.popup.field = [value |-> k, masked |-> FALSE],
                            !.sync.openaiKeyValid = FALSE,
                            !.popup.edited = TRUE,
                            !.popup.saving = {[s EXCEPT !.stale = TRUE] : s \in @}])

\* saveSettings up to the request of validateOpenAIKey
saveSettingsBegin(w) ==
    IF w.popup.field.masked THEN showMessage(w, "error")
    ELSE IF w.popup.field.value = NoKey THEN showMessage(w, "error")
    ELSE [showMessage(w, "validating") EXCEPT
              !.popup.saving = @ \cup {[key |-> w.popup.field.value, stale |-> FALSE]}]

\* a saveSettings that stores the key whatever validateOpenAIKey returned
saveSettingsUnchecked(w, s, valid) ==
    LET w1 == [w EXCEPT !.popup.saving = @ \ {s},
                        !.sync.openaiApiKey = s.key, !.sync.openaiKeyValid = TRUE]
    IN  updateUIState(showMessage(w1, "saved"))

\* saveSettings s after validateOpenAIKey has returned valid for its key
saveSettingsResume(w, s, valid) ==
    LET w0 == [w EXCEPT !.popup.saving = @ \ {s}]
    IN  IF ~valid THEN showMessage(w0, "invalid key")
        ELSE LET w1 == [w0 EXCEPT !.sync.openaiApiKey = s.key, !.sync.openaiKeyValid = TRUE,
                                  !.popup.edited = @ /\ s.stale]
                 m  == maskApiKey(s.key)
             IN  IF ~m.ok THEN showMessage(w1, "error")
                 ELSE updateUIState(showMessage(
                          [w1 EXCEPT !.popup.field = [value |-> m.value, masked |-> TRUE]],
                          "saved"))

\* saveSettings, after the user has typed key, with the answer of
\* validateOpenAIKey (valid) at once
saveSettings(w, key, valid) ==
    saveSettingsResume(
        saveSettingsBegin([w EXCEPT !.popup.field = [value |-> key, masked |-> FALSE]]),
        [key |-> key, stale |-> FALSE], valid)

\* saveToNotionWithCategory up to its POST /notion/save: TRUE when the save
\* request is sent
saveAllowed(w, r, x) ==
    /\ w.popup.userId # NoId
    /\ LET resp == statusResponse(r, w.popup.userId, x)
       IN  /\ resp.kind = "ok"
           /\ resp.connected \/ detectRealUserResult(w, r, x)

saveToNotionWithCategory(w, r, x) ==
    IF w.popup.userId = NoId THEN w
    ELSE LET resp == statusResponse(r, w.popup.userId, x)
         IN  IF resp.kind = "throw" THEN w
             ELSE IF resp.kind = "http" THEN forceDisconnectedState(w)
             ELSE IF resp.connected THEN w
             ELSE IF detectRealUserResult(w, r, x) THEN detectRealUser(w, r, x)
             ELSE forceDisconnectedState(w)

\* The answers of POST /notion/save: 2xx, 401, another status.
SaveAnswers == {"ok", "unauthorized", "failed"}

\* the catch and finally blocks of summarizeCurrentPage: the message, and the
\* button enabled again
summarizeEnd(w, m) ==
    [showMessage(w, m) EXCEPT !.popup.summarizeDisabled = FALSE]

\* summarizeCurrentPage up to the POST /notion/save of saveToNotionWithCategory:
\* the button is disabled while it runs
summarizeCurrentPage(w, r, x) ==
    LET w1 == saveToNotionWithCategory([w EXCEPT !.popup.summarizeDisabled = TRUE], r, x)
    IN  IF saveAllowed(w, r, x)
        THEN [w1 EXCEPT !.timers = @ \cup {"save"}]
        ELSE summarizeEnd(w1, "error")

\* summarizeCurrentPage after the answer sv of POST /notion/save
summarizeResume(w, sv) ==
    summarizeEnd([w EXCEPT !.timers = @ \ {"save"}],
                 IF sv = "ok" THEN "saved to Notion"
                 ELSE IF sv = "unauthorized" THEN "authentication failed"
                 ELSE "error")

---------------------------------------------------------------------------
(* NotedPopup: summarizeCurrentPage cut at its remote calls and at the     *)
(* category confirmation.  popup.flow is the position of the call, what    *)
(* the category elements hold, and the requests the call has made.         *)

\* summarizeCurrentPage up to POST /summarize-and-categorize; content is
\* FALSE when extractPageContent returns nothing
summarizeBegin(w, content) ==
    LET w0 == [w EXCEPT !.popup.summarizeDisabled = TRUE, !.popup.flow = IdleFlow]
    IN  IF ~content \/ w0.sync.openaiApiKey = NoKey
        THEN summarizeEnd(w0, "error")
        ELSE [showMessage(w0, "analyzing") EXCEPT !.popup.flow.pc = "categorize",
                                                  !.popup.flow.summaries = @ + 1]

\* the catch and finally blocks, ending the call
flowEnd(w, m) == [summarizeEnd(w, m) EXCEPT !.popup.flow.pc = "idle"]

\* after the answer a of POST /summarize-and-categorize: showCategoryConfirmation
\* up to its listeners
summarizeCategorized(w, a) ==
    IF ~a.ok THEN flowEnd(w, "error")
    ELSE [w EXCEPT !.popup.flow.pc = "confirm",
                   !.popup.flow.detected = a.category,
                   !.popup.flow.selected = a.category,
                   !.popup.flow.changing = FALSE]

\* The listeners of showCategoryConfirmation.  Each schedules the resolution
\* of the promise; the first one scheduled decides its value.
handleInitialConfirm(w) ==
    [showMessage(w, "category confirmed") EXCEPT !.popup.flow.pc = "resolving",
                                                 !.popup.flow.final = w.popup.flow.detected]

handleChange(w) == [w EXCEPT !.popup.flow.changing = TRUE]

\* the user picks c in categorySelect
categorySelect(w, c) == [w EXCEPT !.popup.flow.selected = c]

\* a handleCancel that resolves with the value of categorySelect
handleCancelKeepsSelection(w) ==
    [showMessage(w, "category kept") EXCEPT !.popup.flow.pc = "resolving",
                                            !.popup.flow.final = w.popup.flow.selected]

handleNewCategoryConfirm(w) ==
    [showMessage(w, "category updated") EXCEPT !.popup.flow.pc = "resolving",
                                               !.popup.flow.final = w.popup.flow.selected]

handleCancel(w) ==
    [showMessage(w, "category kept") EXCEPT !.popup.flow.pc = "resolving",
                                            !.popup.flow.final = w.popup.flow.detected]

\* the promise resolves: summarizeCurrentPage goes on up to the POST
\* /notion/save of saveToNotionWithCategory
categoryResolved(w, r, x) ==
    LET w1 == saveToNotionWithCategory(showMessage(w, "saving"), r, x)
    IN  IF saveAllowed(w, r, x)
        THEN [w1 EXCEPT !.popup.flow.pc = "save",
                        !.popup.flow.sent = w.popup.flow.final,
                        !.popup.flow.saves = @ + 1]
        ELSE flowEnd(w1, "error")

\* a saveAnswered that sends the request once more when it has failed
saveAnsweredRetry(w, sv) ==
    IF sv = "failed" /\ w.popup.flow.saves < 2
    THEN [w EXCEPT !.popup.flow.saves = @ + 1]
    ELSE flowEnd(w, IF sv = "ok" THEN "saved to Notion" ELSE "error")

\* after the answer sv of POST /notion/save
saveAnswered(w, sv) ==
    flowEnd(w, IF sv = "ok" THEN "saved to Notion"
               ELSE IF sv = "unauthorized" THEN "authentication failed"
               ELSE "error")

\* init after GET / succeeded and the stored id, if any, failed to verify
initTail(w) ==
    LET w1 == clearOAuthState(w)
        st == getOAuthStatus(w1)
        w2 == IF st.isInProgress THEN startOAuthCompletionPolling(w1)
              ELSE IF st.completionData.status = "success"
                   THEN processCompletedOAuth(w1, st.completionData)
                   ELSE w1
        w3 == IF w2.popup.userId = NoId \/ IdLength(w2.popup.userId) < 30
              THEN updateUIState([w2 EXCEPT !.popup.status = "disconnected",
                                            !.popup.wasConnected = FALSE])
              ELSE w2
    IN  updateUIState([w3 EXCEPT !.popup.listening = TRUE])

init(w, r, x) ==
    LET w0 == generateUserId(loadSettings(
                  [w EXCEPT !.popup.summarizeDisabled = TRUE, !.popup.phase = "ready"]))
    IN  IF ~pingResponse(r) THEN backendDown(w0)
        ELSE LET w1 == [testBackendConnection(w0, TRUE) EXCEPT !.popup.status = "disconnected",
                                                              !.popup.wasConnected = FALSE]
                 stored == w1.sync.userId
             IN  IF stored # NoId /\ IdLength(stored) > 20
                 THEN LET w2 == [w1 EXCEPT !.popup.userId = stored]
                          resp == statusResponse(r, stored, x)
                      IN  IF resp.kind = "ok" /\ resp.connected
                          THEN showConnectedState(w2)
                          ELSE initTail(clearStoredSettings(generateUserId(
                                   [w2 EXCEPT !.sync.userId = NoId, !.popup.userId = NoId])))
                 ELSE initTail(w1)

---------------------------------------------------------------------------
(* The state after "new NotedPopup()" in a fresh installation: the         *)
(* constructor has set the fields and init() has bound the events.         *)

NewPopup == [userId |-> NoId, backendConnected |-> FALSE, status |-> "disconnected",
             wasConnected |-> FALSE, btn |-> ButtonReset, summarizeDisabled |-> TRUE,
             message |-> "none", phase |-> "constructed", listening |-> FALSE,
             flow |-> IdleFlow, field |-> EmptyField, saving |-> {}, edited |-> FALSE]

Init ==
    /\ popup = NewPopup
    /\ sync = [userId |-> NoId, openaiApiKey |-> NoKey, openaiKeyValid |-> FALSE]
    /\ local = [lastConnectedUser |-> NoId, recent |-> FALSE]
    /\ bg = [oauthState |-> [isInProgress |-> FALSE, completionData |-> NoData],
             interval |-> FALSE, notified |-> 0]
    /\ loads = {}
    /\ timers = {}
    /\ pollers = [i \in 1..MaxPollers |-> IdlePoller]
    /\ ticks = {}
    /\ bgTicks = [k \in 1..MaxBgTicks |-> IdleBgTick]
    /\ remote = [up |-> TRUE, statusOk |-> TRUE, linked |-> {}, latest |-> NoId]
    /\ hist = [bgStale |-> {}]

Apply(w) ==
    /\ popup' = w.popup
    /\ sync' = w.sync
    /\ local' = w.local
    /\ bg' = w.bg
    /\ loads' = w.loads
    /\ timers' = w.timers
    /\ pollers' = w.pollers
    /\ ticks' = w.ticks
    /\ bgTicks' = w.bgTicks

Ready == popup.phase = "ready"

---------------------------------------------------------------------------
(* The popup's handlers, each run to completion.                           *)

Open ==
    /\ popup.phase = "constructed"
    /\ \E x \in Extras : Apply(init(World, remote, x))
    /\ UNCHANGED <<remote, hist>>

\* The popup is closed and opened again: a new NotedPopup in a new page.
Reopen ==
    /\ Ready
    /\ popup' = NewPopup
    /\ loads' = {}
    /\ timers' = {}
    /\ pollers' = [i \in 1..MaxPollers |-> IdlePoller]
    /\ ticks' = {}
    /\ UNCHANGED <<sync, local, bg, bgTicks, remote, hist>>

LoadResume ==
    /\ \E v \in loads : Apply(loadStoredUserId(World, v))
    /\ UNCHANGED <<remote, hist>>

\* a read of chrome.storage.sync made by loadStoredUserId throws
LoadFails ==
    /\ \E v \in loads : Apply(loadStoredUserIdFailed(World, v))
    /\ UNCHANGED <<remote, hist>>

RefreshClick ==
    /\ Ready
    /\ \E x \in Extras : Apply(checkAllConnections(World, remote, x))
    /\ UNCHANGED <<remote, hist>>

\* window 'focus' and document 'visibilitychange', while the service worker
\* reports a session in progress
FocusDuringOAuth ==
    /\ popup.listening
    /\ getOAuthStatus(World).isInProgress
    /\ Apply([checkOAuthCompletion(World) EXCEPT !.timers = @ \cup {"checkOAuthCompletion"}])
    /\ UNCHANGED <<remote, hist>>

\* window 'focus' and document 'visibilitychange' otherwise
FocusCheck ==
    /\ popup.listening
    /\ ~getOAuthStatus(World).isInProgress
    /\ \E x \in Extras : Apply(checkNotionConnection(World, remote, x))
    /\ UNCHANGED <<remote, hist>>

TimerStartOAuth ==
    /\ "startOAuth" \in timers
    /\ Apply(startOAuth([World EXCEPT !.timers = @ \ {"startOAuth"}]))
    /\ hist' = [hist EXCEPT !.bgStale = remote.linked]
    /\ UNCHANGED remote

TimerCheckNotionConnection ==
    /\ "checkNotionConnection" \in timers
    /\ \E x \in Extras :
          Apply(checkNotionConnection([World EXCEPT !.timers = @ \ {"checkNotionConnection"}],
                                      remote, x))
    /\ UNCHANGED <<remote, hist>>

TimerCheckOAuthCompletion ==
    /\ "checkOAuthCompletion" \in timers
    /\ Apply(checkOAuthCompletion([World EXCEPT !.timers = @ \ {"checkOAuthCompletion"}]))
    /\ UNCHANGED <<remote, hist>>

ConnectClick ==
    /\ Ready
    /\ ~popup.btn.disabled
    /\ HasFreePoller(World)
    /\ Apply([connectToNotion(World) EXCEPT !.pollers[NewPoller(World)].stale = remote.linked])
    /\ UNCHANGED <<remote, hist>>

ConnectDblClick ==
    /\ Ready
    /\ popup.btn.connected
    /\ Apply(showMessage(forceDisconnectedState(World), "disconnected"))
    /\ UNCHANGED <<remote, hist>>

HeaderDblClick ==
    /\ Ready
    /\ Apply(forceReset(World))
    /\ UNCHANGED <<remote, hist>>

SaveSettingsClick ==
    /\ Ready
    /\ \E key \in Keys, valid \in BOOLEAN : Apply(saveSettings(World, key, valid))
    /\ UNCHANGED <<remote, hist>>

\* The user edits the key field: the field's 'input' event.
KeyInput ==
    /\ Ready
    /\ \E k \in Keys \cup {NoKey} : Apply(keyInput(World, k))
    /\ UNCHANGED <<remote, hist>>

\* A click on Save Settings, up to the request to api.openai.com.
SaveSettingsStart ==
    /\ Ready
    /\ Apply(saveSettingsBegin(World))
    /\ UNCHANGED <<remote, hist>>

\* api.openai.com answers a validation in flight with 2xx.
ValidationAccepts ==
    /\ \E s \in popup.saving : Apply(saveSettingsResume(World, s, TRUE))
    /\ UNCHANGED <<remote, hist>>

\* api.openai.com answers a validation in flight with an error, or the fetch fails.
ValidationRejects ==
    /\ \E s \in popup.saving : Apply(saveSettingsResume(World, s, FALSE))
    /\ UNCHANGED <<remote, hist>>

SummarizeClick ==
    /\ Ready
    /\ ~popup.summarizeDisabled
    /\ \E x \in Extras : Apply(summarizeCurrentPage(World, remote, x))
    /\ UNCHANGED <<remote, hist>>

\* POST /notion/save is answered
SaveAnswer ==
    /\ "save" \in timers
    /\ \E sv \in SaveAnswers : Apply(summarizeResume(World, sv))
    /\ UNCHANGED <<remote, hist>>

\* The summarize button is clicked: summarizeCurrentPage, step by step.
SummarizeStart ==
    /\ Ready
    /\ ~popup.summarizeDisabled
    /\ popup.flow.pc = "idle"
    /\ \E content \in BOOLEAN : Apply(summarizeBegin(World, content))
    /\ UNCHANGED <<remote, hist>>

\* POST /summarize-and-categorize is answered
CategorizeAnswer ==
    /\ popup.flow.pc = "categorize"
    /\ \E a \in CategorizeAnswers : Apply(summarizeCategorized(World, a))
    /\ UNCHANGED <<remote, hist>>

ConfirmCategoryClick ==
    /\ popup.flow.pc = "confirm" /\ ~popup.flow.changing
    /\ Apply(handleInitialConfirm(World))
    /\ UNCHANGED <<remote, hist>>

ChangeCategoryClick ==
    /\ popup.flow.pc = "confirm" /\ ~popup.flow.changing
    /\ Apply(handleChange(World))
    /\ UNCHANGED <<remote, hist>>

CategorySelectInput ==
    /\ popup.flow.pc = "confirm" /\ popup.flow.changing
    /\ \E c \in Categories : Apply(categorySelect(World, c))
    /\ UNCHANGED <<remote, hist>>

ConfirmSelectionClick ==
    /\ popup.flow.pc = "confirm" /\ popup.flow.changing
    /\ Apply(handleNewCategoryConfirm(World))
    /\ UNCHANGED <<remote, hist>>

CancelCategoryClick ==
    /\ popup.flow.pc = "confirm" /\ popup.flow.changing
    /\ Apply(handleCancel(World))
    /\ UNCHANGED <<remote, hist>>

\* the 500 ms timer of the listener that was clicked
CategoryResolved ==
    /\ popup.flow.pc = "resolving"
    /\ \E x \in Extras : Apply(categoryResolved(World, remote, x))
    /\ UNCHANGED <<remote, hist>>

\* POST /notion/save of a step-by-step summarizeCurrentPage is answered
SaveAnswered ==
    /\ popup.flow.pc = "save"
    /\ \E sv \in SaveAnswers : Apply(saveAnswered(World, sv))
    /\ UNCHANGED <<remote, hist>>

\* the 5-second interval of setupStatusCheck
StatusTick ==
    /\ popup.listening
    /\ Apply(testBackendConnection(World, pingResponse(remote)))
    /\ UNCHANGED <<remote, hist>>

PollTick ==
    /\ \E i \in DOMAIN pollers :
          /\ pollers[i].active
          /\ \E x \in Extras : Apply(pollRun(World, i, remote, x))
    /\ UNCHANGED <<remote, hist>>

BgTick ==
    /\ bg.interval
    /\ bg.oauthState.isInProgress
    /\ \E x \in Extras : Apply(bgRun(World, remote, x))
    /\ UNCHANGED <<remote, hist>>

---------------------------------------------------------------------------
(* The backend relay and the clock.                                        *)

\* Account u completes the authorization at the identity provider.
Authorized(u) ==
    /\ remote.up
    /\ remote' = [remote EXCEPT !.linked = @ \cup {u}, !.latest = u]
    /\ pollers' = [i \in DOMAIN pollers |-> [pollers[i] EXCEPT !.stale = @ \ {u}]]
    /\ hist' = [bgStale |-> hist.bgStale \ {u}]
    /\ UNCHANGED <<popup, sync, local, bg, loads, timers, ticks, bgTicks>>

\* The user of this installation completes the authorization.
Authorize == Authorized(Owner)

\* Another client of the same backend completes an authorization.
AuthorizeElsewhere == Authorized(Other)

\* A token is revoked or expires.
Revoke ==
    /\ \E u \in remote.linked : remote' = [remote EXCEPT !.linked = @ \ {u}]
    /\ UNCHANGED <<popup, sync, local, bg, loads, timers, pollers, ticks, bgTicks, hist>>

\* The backend becomes unreachable, or reachable again.
Reachability ==
    /\ remote' = [remote EXCEPT !.up = ~@]
    /\ UNCHANGED <<popup, sync, local, bg, loads, timers, pollers, ticks, bgTicks, hist>>

\* /user/{id}/status starts, or stops, answering with a non-2xx status.
StatusFault ==
    /\ remote' = [remote EXCEPT !.statusOk = ~@]
    /\ UNCHANGED <<popup, sync, local, bg, loads, timers, pollers, ticks, bgTicks, hist>>

\* 30 seconds pass since lastConnectionTime.
TimePasses ==
    /\ local.recent
    /\ local' = [local EXCEPT !.recent = FALSE]
    /\ UNCHANGED <<popup, sync, bg, loads, timers, pollers, ticks, bgTicks, remote, hist>>

---------------------------------------------------------------------------
(* Spec: one popup at a time, its link-status checks run to completion     *)
(* against a backend that links, revokes and fails.                        *)

Next ==
    \/ Open \/ Reopen \/ LoadResume
    \/ RefreshClick \/ FocusCheck
    \/ ConnectDblClick \/ HeaderDblClick
    \/ SaveSettingsClick \/ SummarizeClick \/ SaveAnswer \/ StatusTick
    \/ Authorize \/ AuthorizeElsewhere \/ Revoke \/ Reachability \/ StatusFault

Spec == Init /\ [][Next]_vars

(* SessionSpec: the link sessions started by connectToNotion, the popup's  *)
(* and the service worker's timer callbacks run to completion.             *)

SessionNext ==
    \/ Open \/ Reopen \/ LoadResume
    \/ ConnectClick \/ HeaderDblClick \/ FocusDuringOAuth
    \/ TimerStartOAuth \/ TimerCheckNotionConnection \/ TimerCheckOAuthCompletion
    \/ PollTick \/ BgTick
    \/ Authorize \/ Revoke \/ TimePasses

SessionSpec == Init /\ [][SessionNext]_vars

(* StorageSpec: the popup's identity, read from a chrome.storage.sync whose *)
(* reads can throw.                                                        *)

StorageNext ==
    \/ Open \/ Reopen \/ LoadResume \/ LoadFails
    \/ RefreshClick \/ ConnectDblClick \/ HeaderDblClick
    \/ Authorize \/ Revoke \/ Reachability

StorageSpec == Init /\ [][StorageNext]_vars

(* OutageSpec: a link session of the popup, its ticks run to completion,   *)
(* against a backend that becomes unreachable and reachable again.         *)

OutageNext ==
    \/ Open \/ Reopen \/ LoadResume
    \/ ConnectClick \/ HeaderDblClick
    \/ PollTick
    \/ Authorize \/ Reachability

OutageSpec == Init /\ [][OutageNext]_vars

---------------------------------------------------------------------------
(* The timers' callbacks, interleaved at their remote calls: a callback of *)
(* setInterval starts whether or not the earlier ones have returned.       *)

\* the callbacks in flight after callback t has gone on to t1
Continue(w, t, t1) ==
    [w EXCEPT !.ticks = (@ \ {t}) \cup (IF t1.pc = "idle" THEN {} ELSE {t1})]

PollTickStart ==
    /\ Cardinality(ticks) < MaxTicks
    /\ \E i \in DOMAIN pollers :
          /\ pollers[i].active
          /\ LET s == pollStart(World, i)
             IN  Apply(collect(Continue(s.w, s.t, s.t)))
    /\ UNCHANGED <<remote, hist>>

PollTickStep ==
    /\ \E t \in ticks :
          \E x \in Extras :
             LET s == pollStep(World, t, remote, x)
             IN  Apply(collect(Continue(s.w, t, s.t)))
    /\ UNCHANGED <<remote, hist>>

FreeBgTick == CHOOSE k \in DOMAIN bgTicks : bgTicks[k].pc = "idle" /\ \A j \in DOMAIN bgTicks : bgTicks[j].pc = "idle" => k <= j

BgTickStart ==
    /\ bg.interval
    /\ bg.oauthState.isInProgress
    /\ \E k \in DOMAIN bgTicks : bgTicks[k].pc = "idle"
    /\ bgTicks' = [bgTicks EXCEPT ![FreeBgTick] = [pc |-> "completion", arg |-> NoId, stale |-> FALSE]]
    /\ UNCHANGED <<popup, sync, local, bg, loads, timers, pollers, ticks, remote, hist>>

BgTickStep ==
    /\ \E k \in DOMAIN bgTicks :
          /\ bgTicks[k].pc # "idle"
          /\ \E x \in Extras :
                LET s == bgStep(World, bgTicks[k], remote, x)
                IN  Apply([s.w EXCEPT !.bgTicks[k] = s.t])
    /\ UNCHANGED <<remote, hist>>

(* PollSpec: the popup's polling loops, callbacks interleaved.             *)

PollNext ==
    \/ Open \/ LoadResume
    \/ ConnectClick \/ HeaderDblClick
    \/ PollTickStart \/ PollTickStep
    \/ Authorize \/ Revoke

PollSpec == Init /\ [][PollNext]_vars

(* MonitorSpec: the service worker's monitor, calls interleaved.  The      *)
(* interval fires again and again while it is set, and a call in flight    *)
(* gets its answer or its error: weak fairness of both.                    *)

MonitorNext ==
    \/ Open \/ Reopen
    \/ ConnectClick \/ TimerStartOAuth
    \/ BgTickStart \/ BgTickStep
    \/ Authorize \/ Revoke \/ Reachability

MonitorSpec == Init /\ [][MonitorNext]_vars /\ WF_vars(BgTickStart) /\ WF_vars(BgTickStep)

(* SummarizeSpec: summarizeCurrentPage step by step, in a popup that is    *)
(* linked by refreshes and holds a key, against a backend that links,      *)
(* revokes and becomes unreachable.                                        *)

SummarizeNext ==
    \/ Open \/ LoadResume \/ RefreshClick \/ SaveSettingsClick
    \/ SummarizeStart \/ CategorizeAnswer
    \/ ConfirmCategoryClick \/ ChangeCategoryClick \/ CategorySelectInput
    \/ ConfirmSelectionClick \/ CancelCategoryClick
    \/ CategoryResolved \/ SaveAnswered
    \/ Authorize \/ Revoke \/ Reachability

SummarizeSpec == Init /\ [][SummarizeNext]_vars

(* ProjectorSpec: everything that changes what updateUIState reads: the    *)
(* backend's reachability as the 5-second check sees it, the link status,  *)
(* the stored key, and the connect button of a link session.               *)

ProjectorNext ==
    \/ Open \/ Reopen \/ LoadResume
    \/ ConnectClick \/ PollTick
    \/ SaveSettingsClick \/ StatusTick \/ FocusCheck
    \/ Authorize \/ Revoke \/ Reachability

ProjectorSpec == Init /\ [][ProjectorNext]_vars

(* RaceSpec: reconciles of one popup (the callbacks of its polling loops,  *)
(* interleaved at their remote calls, and its focus handler) against a     *)
(* backend whose state does not change.  The popup is opened in an         *)
(* installation that may hold the id stored by an earlier session.         *)

\* The states of a backend that answers.
StableRemotes ==
    {r \in [up : {TRUE}, statusOk : {TRUE}, linked : SUBSET Users, latest : Users \cup {NoId}] :
        r.linked # {} => r.latest # NoId}

RaceInit ==
    /\ popup = NewPopup
    /\ sync \in {[userId |-> u, openaiApiKey |-> NoKey, openaiKeyValid |-> FALSE] :
                     u \in {NoId} \cup Users}
    /\ local = [lastConnectedUser |-> NoId, recent |-> FALSE]
    /\ bg = [oauthState |-> [isInProgress |-> FALSE, completionData |-> NoData],
             interval |-> FALSE, notified |-> 0]
    /\ loads = {}
    /\ timers = {}
    /\ pollers = [i \in 1..MaxPollers |-> IdlePoller]
    /\ ticks = {}
    /\ bgTicks = [k \in 1..MaxBgTicks |-> IdleBgTick]
    /\ remote \in StableRemotes
    /\ hist = [bgStale |-> {}]

RaceNext ==
    \/ Open \/ LoadResume
    \/ ConnectClick \/ FocusCheck
    \/ PollTickStart \/ PollTickStep

RaceSpec == RaceInit /\ [][RaceNext]_vars

---------------------------------------------------------------------------
(* Properties.                                                             *)

\* The popup holds remote id R as its confirmed link.
Confirmed(R) == sync.userId = R /\ popup.userId = R /\ popup.status = "connected"

\* A status request fails: no answer, or an answer that is not 2xx.
StatusFails == ~remote.up \/ ~remote.statusOk

\* A step that is one run of checkNotionConnection.
ConnectionCheck == FocusCheck \/ TimerCheckNotionConnection

\* C1: a link-status check (checkNotionConnection, the verification of the
\* stored id in init, the check before a save) whose status request fails
\* (network error or non-2xx answer) does not remove the stored userId of a
\* confirmed link and does not change the status from connected to
\* disconnected.
C1_NoFalseDemotion ==
    [][\A R \in Users :
          (/\ StatusFails
           /\ \/ Confirmed(R) /\ (ConnectionCheck \/ SummarizeClick)
              \/ sync.userId = R /\ Open)
             => /\ sync'.userId = R
                /\ popup.status = "connected" => popup'.status = "connected"]_vars

\* C2: a link-status check of confirmed id R that the backend answers with
\* connected: false, whatever the reason, removes the stored userId, sets the
\* status to disconnected and puts a new placeholder in use.
C2_RevokeConvergence ==
    [][\A R \in Users :
          (Confirmed(R) /\ ~StatusFails /\ R \notin remote.linked /\ ConnectionCheck)
             => /\ sync'.userId = NoId
                /\ popup'.status = "disconnected"
                /\ popup'.userId = Tmp \/ Tmp \in loads']_vars

\* C3: with no stored userId, a run of checkAllConnections that finds the
\* backend's latest id C linked ends with stored userId C and status
\* connected, and with the summarize button enabled when the key is valid.
C3_DiscoveryPromotion ==
    [][\A C \in Users :
          (/\ RefreshClick
           /\ sync.userId = NoId /\ popup.userId \notin Users
           /\ remote.up /\ remote.statusOk
           /\ remote.latest = C /\ C \in remote.linked)
             => /\ sync'.userId = C
                /\ popup'.status = "connected"
                /\ (sync'.openaiApiKey # NoKey /\ sync'.openaiKeyValid)
                       => ~popup'.summarizeDisabled]_vars

\* What a reconcile run is observed to produce.
Observed(w) == [userId |-> w.sync.userId, status |-> w.popup.status,
                openaiApiKey |-> w.sync.openaiApiKey, openaiKeyValid |-> w.sync.openaiKeyValid]

\* C4: with the backend unchanged, a second run of checkAllConnections right
\* after a first one leaves the stored userId, the status and the stored key
\* as the first run left them.
C4_ReconcileIdempotent ==
    (Ready /\ loads = {}) =>
        \A x \in Extras :
            LET w1 == checkAllConnections(World, remote, x)
            IN  w1.loads = {} =>
                    Observed(checkAllConnections(w1, remote, x)) = Observed(w1)

\* C5: a polling loop of the popup starts at most maxAttempts ticks.
C5_AtMostMaxAttempts == \A i \in DOMAIN pollers : pollers[i].attempts <= maxAttempts

\* C6: a session of the service worker's monitor that is in progress is
\* eventually not in progress.
C6_MonitorEnds == bg.oauthState.isInProgress ~> ~bg.oauthState.isInProgress

BgTicksInFlight == {k \in DOMAIN bgTicks : bgTicks[k].pc # "idle"}

\* C7: of one timer, at most one callback is in flight at any time: of each
\* polling loop of the popup and of the service worker's monitor.
C7_NoOverlappingTicks ==
    /\ \A i \in DOMAIN pollers : Cardinality(TicksOf(World, i)) <= 1
    /\ Cardinality(BgTicksInFlight) <= 1

\* C8: at most one polling loop of the popup is active at any time.
C8_OneWatcher == Cardinality({i \in DOMAIN pollers : pollers[i].active}) <= 1

\* C9: a checkOAuthCompletion call of the service worker that returns after
\* its session was cleared or replaced, or is no longer in progress, changes
\* neither completionData nor lastConnectedUser and raises no notification.
C9_StaleResultDiscarded ==
    [][\A k \in DOMAIN bgTicks :
          (/\ bgTicks[k].pc # "idle" /\ bgTicks'[k].pc = "idle"
           /\ bgTicks[k].stale \/ ~bg.oauthState.isInProgress)
             => /\ bg'.oauthState.completionData = bg.oauthState.completionData
                /\ local' = local
                /\ bg'.notified = bg.notified]_vars

\* C10: a polling loop of the popup ends in the connected state only with an
\* id that was linked after the loop was started.
C10_NewLinkOnly ==
    [][\A i \in DOMAIN pollers :
          (pollers[i].active /\ ~pollers'[i].active /\ popup'.btn.connected)
             => popup'.userId \notin pollers[i].stale]_vars

\* C11: the service worker raises at most one completion notification, and
\* writes at most one completionData record, per startOAuth.
C11_OneNotification == bg.notified <= 1

\* C12: once a session is confirmed no request is made on its behalf: no
\* checkOAuthCompletion call of the service worker that belongs to it starts
\* or goes on to its status request, and no callback of a popup loop that has
\* ended connected goes on to a check-completion or a discovery status request.
C12_ConfirmedStopsTicking ==
    [][/\ bg.oauthState.completionData.status = "success" =>
             \A k \in DOMAIN bgTicks :
                ~bgTicks[k].stale =>
                   /\ ~(bgTicks[k].pc = "idle" /\ bgTicks'[k].pc # "idle")
                   /\ ~(bgTicks[k].pc = "completion" /\ bgTicks'[k].pc = "status")
       /\ \A t \in ticks :
             (~pollers[t.poller].active /\ popup.btn.connected /\ t.pc \in {"detect", "verify"}) =>
                 ~\E t1 \in ticks' :
                     /\ t1.poller = t.poller /\ t1.n = t.n
                     /\ t1.pc \in {"verify", "fallback"} /\ t1.pc # t.pc]_vars

\* C13: the clearOAuthState message leaves the session not in progress and
\* its timer stopped, and leaves the completionData of a completed session
\* as it was.
C13_CancelNoOpWhenTerminal ==
    LET w1 == clearOAuthState(World)
    IN  /\ ~w1.bg.oauthState.isInProgress
        /\ ~w1.bg.interval
        /\ bg.oauthState.completionData.status = "success" =>
               w1.bg.oauthState.completionData = bg.oauthState.completionData

\* The status request about u is answered with connected: true.
Answers(u) == remote.up /\ remote.statusOk /\ u \in remote.linked

\* The popup shows the link as connected.
Shown == popup.status = "connected" \/ popup.btn.connected

C15_NoSwitchOfRemoteId ==
    [][\A R \in Users :
          (sync.userId = R /\ popup.userId = R /\ (RefreshClick \/ SummarizeClick))
             => /\ sync'.userId \notin Users \ {R}
                /\ popup'.userId \notin Users \ {R}]_vars

\* C16: in every state of an initialised popup in which no summarize is
\* running, the summarize button is enabled exactly when the status is
\* connected and a stored key is valid.
C16_SummarizeEnabledIff ==
    (Ready /\ "save" \notin timers) =>
        (~popup.summarizeDisabled <=>
            (/\ popup.status = "connected"
             /\ sync.openaiApiKey # NoKey /\ sync.openaiKeyValid))

\* C17: the stored key and its validity change only in a saveSettings or in
\* a forceReset: no link-status check and no change to disconnected changes
\* them.
C17_CredentialIndependent ==
    [][(\/ sync'.openaiApiKey # sync.openaiApiKey
        \/ sync'.openaiKeyValid # sync.openaiKeyValid)
           => SaveSettingsClick \/ HeaderDblClick]_vars

\* A step in which POST /notion/save is answered with 401.
SaveRejected ==
    /\ "save" \in timers /\ "save" \notin timers'
    /\ popup'.message = "authentication failed"

\* C18: when POST /notion/save is answered with 401 while the status request
\* about the held id R answers connected: false and there is no linked id to
\* discover, the identity is reset: the stored userId is removed and the
\* status is disconnected.
C18_RejectedSaveReconciles ==
    [][\A R \in Users :
          (/\ SaveRejected
           /\ sync.userId = R /\ popup.userId = R
           /\ ~StatusFails /\ R \notin remote.linked /\ remote.latest \notin remote.linked)
             => /\ sync'.userId = NoId
                /\ popup'.status = "disconnected"]_vars

\* C19: a polling loop of the popup that ends while no id is linked and no
\* completion is recorded (it ends by exhausting its attempts) shows the
\* timeout message and leaves the stored and the in-memory userId as they
\* were before its last tick.
C19_TimeoutReported ==
    [][\A i \in DOMAIN pollers :
          (/\ pollers[i].active /\ ~pollers'[i].active
           /\ Ready /\ Ready'
           /\ remote.linked = {}
           /\ bg.oauthState.completionData.status # "success")
             => /\ popup'.message = "timeout"
                /\ sync'.userId = sync.userId
                /\ popup'.userId = popup.userId]_vars

\* C20: when a loadStoredUserId of an initialised popup finishes, the
\* in-memory userId is not null.
C20_LoadYieldsIdentity ==
    [][(Ready /\ Ready' /\ loads' # loads /\ loads' \subseteq loads)
           => popup'.userId # NoId]_vars

\* The messages by which the popup reports a failure to the user.
FailureMessages == {"error", "authentication failed", "timeout", "invalid key"}

\* C21: a handler of the popup whose remote call fails because the backend is
\* unreachable (the status request of checkNotionConnection, GET / of
\* checkAllConnections, the status request before a save) ends with a failure
\* message shown to the user.
C21_FailureReported ==
    [][(/\ ~remote.up
        /\ \/ FocusCheck /\ popup.userId # NoId
           \/ RefreshClick
           \/ SummarizeClick /\ popup.userId # NoId)
           => popup'.message \in FailureMessages]_vars

\* No reconcile of the popup is in flight and no polling loop is active.
Quiet ==
    /\ Ready /\ loads = {} /\ ticks = {}
    /\ \A i \in DOMAIN pollers : ~pollers[i].active

\* C22: with the backend unchanged, once the interleaved reconciles of the
\* popup (polling callbacks, focus checks) have all completed and the id in
\* memory is the stored one, the stored userId and the status are what one
\* more checkNotionConnection produces: they have converged.
C22_ConcurrentConverge ==
    (Quiet /\ (popup.userId = sync.userId \/ sync.userId = NoId)) =>
        \A x \in Extras :
            LET w1 == checkNotionConnection(World, remote, x)
            IN  /\ w1.sync.userId = sync.userId
                /\ w1.popup.status = popup.status

\* C23: while the status is connected, the userId in memory and the stored
\* userId are not ids other than the confirmed one: neither is the
\* placeholder, which no status query confirms, and when both are remote ids
\* they are the same id.
C23_ConfirmedWithOwnId ==
    popup.status = "connected" =>
        /\ popup.userId # Tmp /\ sync.userId # Tmp
        /\ (popup.userId \in Users /\ sync.userId \in Users) => popup.userId = sync.userId

\* A link session of the popup is pending: a polling loop is active.
Pending == \E i \in DOMAIN pollers : pollers[i].active

Projected(w) == [summarizeDisabled |-> w.popup.summarizeDisabled, btn |-> w.popup.btn]

\* The current inputs of updateUIState (backendConnected, the status class,
\* the stored key and its validity, the connecting mark of a pending session)
\* in a popup whose elements are as the page was loaded.
FreshUI ==
    [World EXCEPT !.popup = [NewPopup EXCEPT
                                !.backendConnected = popup.backendConnected,
                                !.status = popup.status,
                                !.btn = IF popup.btn.connecting
                                        THEN ButtonConnecting(ButtonReset) ELSE ButtonReset]]

C26_NoAutomaticRetry ==
    [][/\ popup'.flow.summaries <= 1
       /\ popup'.flow.saves <= 1
       /\ (popup.flow.pc = "save" /\ popup'.flow # popup.flow) =>
              /\ popup'.flow.pc = "idle"
              /\ popup'.flow.saves = popup.flow.saves
              /\ popup'.flow.summaries = popup.flow.summaries]_vars

\* A save request has failed and the run is over, with its one request.
C26_Witness ==
    /\ popup.flow.pc = "idle"
    /\ popup.flow.saves = 1 /\ popup.flow.summaries = 1
    /\ popup.message \in {"error", "authentication failed"}

\* C27: when the summarize-and-categorize request fails, the run goes on to
\* the category confirmation with the category "General News".
C27_DefaultCategory ==
    popup.flow.pc = "categorize" =>
        LET w1 == summarizeCategorized(World, [ok |-> FALSE, category |-> NoCategory])
        IN  /\ w1.popup.flow.pc = "confirm"
            /\ w1.popup.flow.detected = "General News"

\* C28: the save request is sent only after a click has resolved the
\* category confirmation, with the category that click decided: the detected
\* one for "Confirm Category" and for "Cancel", the selected one for "Confirm
\* Selection".
C28_ConfirmedBeforeSave ==
    [][/\ popup'.flow.saves > popup.flow.saves =>
              /\ popup.flow.pc = "resolving"
              /\ popup'.flow.sent = popup.flow.final
       /\ (popup.flow.pc = "confirm" /\ popup'.flow.pc = "resolving") =>
              /\ ConfirmCategoryClick \/ ConfirmSelectionClick \/ CancelCategoryClick
              /\ popup'.flow.final = IF ConfirmSelectionClick THEN popup.flow.selected
                                     ELSE popup.flow.detected]_vars

\* The save request carries the category the user selected instead of the
\* detected one.
C28_Witness ==
    /\ popup.flow.pc = "save"
    /\ popup.flow.sent = popup.flow.selected
    /\ popup.flow.sent # popup.flow.detected

\* C29: when init runs while the service worker holds the completion of
\* account C, still linked, and the backend answers, init ends with stored
\* userId C.
C29_CompletionPickedUp ==
    [][\A C \in Users :
          (/\ Open
           /\ bg.oauthState.completionData = Success(C)
           /\ remote.up /\ remote.statusOk /\ C \in remote.linked)
             => sync'.userId = C]_vars

\* C30: while a summarizeCurrentPage is running, the summarize button is
\* disabled.
C30_OneSummarizeInFlight == popup.flow.pc # "idle" => popup.summarizeDisabled

\* C31: in every state of an initialised popup, the summarize button is
\* enabled only while backendConnected is true.
C31_EnabledOnlyIfBackend == (Ready /\ ~popup.summarizeDisabled) => popup.backendConnected

(* The key field and Save Settings, each saveSettings split at its await of   *)
(* validateOpenAIKey.                                                         *)
SettingsNext ==
    \/ Open \/ Reopen \/ RefreshClick \/ HeaderDblClick
    \/ KeyInput \/ SaveSettingsStart \/ ValidationAccepts \/ ValidationRejects
    \/ Authorize \/ Revoke \/ Reachability

SettingsSpec == Init /\ [][SettingsNext]_vars

KeyUnchanged ==
    /\ sync'.openaiApiKey = sync.openaiApiKey
    /\ sync'.openaiKeyValid = sync.openaiKeyValid

\* C32: the stored key becomes valid, or a valid stored key changes, only in a
\* step in which validateOpenAIKey returned true for that very key, and a
\* saveSettings writes nothing to the stored key when the field is masked or
\* empty or when the validation fails.
C32_OnlyValidatedSaved ==
    [][ /\ (sync'.openaiKeyValid /\ (~sync.openaiKeyValid \/ sync'.openaiApiKey # sync.openaiApiKey))
            => (ValidationAccepts /\ \E s \in popup.saving : sync'.openaiApiKey = s.key)
        /\ (SaveSettingsStart /\ (popup.field.masked \/ popup.field.value = NoKey))
            => KeyUnchanged
        /\ ValidationRejects => KeyUnchanged ]_vars

C32_Witness ==
    /\ sync.openaiKeyValid /\ sync.openaiApiKey \in Keys
    /\ popup.message = "saved" /\ popup.field.masked

\* C33: once the key field has been edited, and until a saveSettings started
\* after that edit has validated its key, the stored key is not marked valid
\* and the summarize button is disabled.
C33_EditInvalidates ==
    popup.edited => (~sync.openaiKeyValid /\ popup.summarizeDisabled)

----------------------------------------------------------------------------
(* SummarizeItPopup, the popup class for the backend on localhost.  Its      *)
(* state is held in popup and sync; no authorization session of the service  *)
(* worker is under way, so checkOAuthCompletion finds nothing, and           *)
(* checkForConnectedUsers, which asks /debug/user/ for an object instead of  *)
(* an id, verifies no user.                                                  *)

\* the class names of the status element
ClassStatus == <<"s","t","a","t","u","s">>
ClassConnected == ClassStatus \o <<" ","c","o","n","n","e","c","t","e","d">>
ClassDisconnected == ClassStatus \o <<" ","d","i","s","c","o","n","n","e","c","t","e","d">>

\* String.prototype.includes
includes(s, t) == \E i \in 1..(Len(s) - Len(t) + 1) : SubSeq(s, i, i + Len(t) - 1) = t

NewSummarizeItPopup ==
    [className |-> ClassStatus, summarizeDisabled |-> FALSE, userId |-> NoId,
     message |-> "none", field |-> NoKey, phase |-> "constructed"]

SummarizeItPopup_updateUIState(w) ==
    LET isConnectedToNotion == includes(w.popup.className, <<"c","o","n","n","e","c","t","e","d">>)
        hasOpenaiKey == w.sync.openaiApiKey # NoKey
    IN  [w EXCEPT !.popup.summarizeDisabled = ~(isConnectedToNotion /\ hasOpenaiKey)]

SummarizeItPopup_clearStoredSettings(w) ==
    [w EXCEPT !.sync.openaiApiKey = NoKey, !.popup.field = NoKey]

SummarizeItPopup_showConnectedState(w) ==
    [SummarizeItPopup_updateUIState([w EXCEPT !.popup.className = ClassConnected])
        EXCEPT !.popup.message = "connected"]

SummarizeItPopup_showDisconnectedState(w) ==
    LET w1 == SummarizeItPopup_updateUIState([w EXCEPT !.popup.className = ClassDisconnected])
    IN  [SummarizeItPopup_clearStoredSettings(w1) EXCEPT !.popup.message = "connect"]

\* tokenOk: /debug/user/{id} reports a token that reaches the workspace
SummarizeItPopup_checkNotionConnection(w, r, tokenOk) ==
    IF w.popup.userId = NoId THEN SummarizeItPopup_showDisconnectedState(w)
    ELSE IF ~r.up \/ ~r.statusOk THEN SummarizeItPopup_showDisconnectedState(w)
    ELSE IF w.popup.userId \notin r.linked THEN SummarizeItPopup_showDisconnectedState(w)
    ELSE IF tokenOk THEN SummarizeItPopup_showConnectedState(w)
    ELSE SummarizeItPopup_showDisconnectedState(w)

SummarizeItPopup_saveSettings(w) ==
    SummarizeItPopup_updateUIState(
        [w EXCEPT !.sync.openaiApiKey = w.popup.field, !.popup.message = "saved"])

SummarizeItPopup_init(w, r, tokenOk) ==
    LET w0 == [w EXCEPT !.popup.phase = "ready", !.popup.summarizeDisabled = TRUE,
                        !.popup.field = IF w.sync.openaiApiKey # NoKey
                                        THEN w.sync.openaiApiKey ELSE @,
                        !.popup.userId = IF w.sync.userId # NoId THEN w.sync.userId ELSE Tmp]
        autoDetectConnection ==
            IF r.latest # NoId /\ r.latest \in r.linked /\ tokenOk
            THEN [w0 EXCEPT !.popup.userId = r.latest, !.sync.userId = r.latest]
            ELSE w0
    IN  IF ~r.up
        THEN SummarizeItPopup_updateUIState([w0 EXCEPT !.popup.className = ClassDisconnected])
        ELSE SummarizeItPopup_updateUIState(
                 SummarizeItPopup_checkNotionConnection(autoDetectConnection, r, tokenOk))

ItWorld == [popup |-> popup, sync |-> sync]

ItApply(w) ==
    /\ popup' = w.popup
    /\ sync' = w.sync
    /\ UNCHANGED <<local, bg, loads, timers, pollers, ticks, bgTicks, remote, hist>>

ItOpen ==
    /\ popup.phase = "constructed"
    /\ \E tokenOk \in BOOLEAN : ItApply(SummarizeItPopup_init(ItWorld, remote, tokenOk))

ItReopen ==
    /\ popup.phase = "ready"
    /\ ItApply([ItWorld EXCEPT !.popup = NewSummarizeItPopup])

\* the refresh button, and the 3-second interval of setupStatusCheck
ItRefreshClick ==
    /\ popup.phase = "ready"
    /\ \E tokenOk \in BOOLEAN :
           ItApply(SummarizeItPopup_checkNotionConnection(ItWorld, remote, tokenOk))

\* the user makes the key field k
ItKeyInput ==
    /\ popup.phase = "ready"
    /\ \E k \in Keys \cup {NoKey} : ItApply([ItWorld EXCEPT !.popup.field = k])

ItSaveSettingsClick ==
    /\ popup.phase = "ready"
    /\ ItApply(SummarizeItPopup_saveSettings(ItWorld))

ItInit ==
    /\ popup = NewSummarizeItPopup
    /\ sync = [userId |-> NoId, openaiApiKey |-> NoKey, openaiKeyValid |-> FALSE]
    /\ local = [lastConnectedUser |-> NoId, recent |-> FALSE]
    /\ bg = [oauthState |-> [isInProgress |-> FALSE, completionData |-> NoData],
             interval |-> FALSE, notified |-> 0]
    /\ loads = {}
    /\ timers = {}
    /\ pollers = [i \in 1..MaxPollers |-> IdlePoller]
    /\ ticks = {}
    /\ bgTicks = [k \in 1..MaxBgTicks |-> IdleBgTick]
    /\ remote = [up |-> TRUE, statusOk |-> TRUE, linked |-> {}, latest |-> NoId]
    /\ hist = [bgStale |-> {}]

ItNext ==
    \/ ItOpen \/ ItReopen \/ ItRefreshClick \/ ItKeyInput \/ ItSaveSettingsClick
    \/ Authorize \/ AuthorizeElsewhere \/ Revoke \/ Reachability

ItSpec == ItInit /\ [][ItNext]_vars

\* C34: in SummarizeItPopup, once init has run, an enabled summarize button
\* implies that the status element shows the connected state and that a
\* non-empty OpenAI key is stored.
C34_EnabledOnlyIfBoth ==
    (popup.phase = "ready" /\ ~popup.summarizeDisabled)
        => (popup.className = ClassConnected /\ sync.openaiApiKey # NoKey)

(* MissedSpec: the record the service worker leaves in chrome.storage.local  *)
(* when a session completes, and the refreshes of a popup that read it.      *)
MissedNext ==
    \/ Open \/ Reopen \/ ConnectClick \/ TimerStartOAuth \/ BgTick \/ RefreshClick
    \/ Authorize \/ Revoke \/ Reachability \/ StatusFault \/ TimePasses

MissedSpec == Init /\ [][MissedNext]_vars

\* C35: checkForMissedOAuth makes lastConnectedUser the in-memory and the
\* stored userId when the record is less than 30 seconds old and the status
\* request about that user is answered with connected: true; in every other
\* case it leaves chrome.storage.sync and the in-memory userId as they are.
C35_MissedOAuthVerified ==
    \A x \in Extras :
        LET w1 == checkForMissedOAuth(World, remote, x)
            last == local.lastConnectedUser
        IN  IF last # NoId /\ local.recent /\ Answers(last)
            THEN w1.popup.userId = last /\ w1.sync.userId = last
            ELSE w1.sync = sync /\ w1.popup.userId = popup.userId

\* A refresh has adopted the recent record of the service worker.
C35_Witness ==
    /\ local.recent /\ local.lastConnectedUser \in Users
    /\ sync.userId = local.lastConnectedUser /\ popup.userId = local.lastConnectedUser
    /\ popup.message = "connected" /\ popup.status = "disconnected"

\* No handler of the popup is waiting for an answer and no read of the stored
\* id is under way.
NothingInFlight ==
    /\ loads = {} /\ ticks = {} /\ popup.saving = {} /\ popup.flow.pc = "idle"

\* C36: in an initialised popup with no operation in flight, a userId held
\* by chrome.storage.sync is also the popup's in-memory userId.
C36_IdentityAgrees ==
    (Ready /\ NothingInFlight /\ sync.userId # NoId) => popup.userId = sync.userId

\* C37: from the state forceReset leaves (its message still shown), every
\* step other than a new click on Connect leaves chrome.storage.sync without
\* a userId and the status disconnected.
C37_ResetStays ==
    [][ (popup.message = "reset" /\ sync.userId = NoId /\ popup.status = "disconnected"
           /\ ~ConnectClick)
        => (sync'.userId = NoId /\ popup'.status = "disconnected") ]_vars

\* C38: in the service worker's session state, completionData is set only
\* while isInProgress is false, and a completionData that is set has the
\* status 'success' and a userId.
C38_ProgressExcludesCompletion ==
    LET d == bg.oauthState.completionData
    IN  d # NoData => (~bg.oauthState.isInProgress /\ d.status = "success" /\ d.userId \in Users)

\* A session has completed and its completion is recorded.
C38_Witness ==
    /\ bg.oauthState.completionData \in {Success(u) : u \in Users}
    /\ ~bg.oauthState.isInProgress
    /\ bg.notified >= 1

----------------------------------------------------------------------------
(* MaskSpec: popups opened on a chrome.storage.sync that holds a validated   *)
(* key of any length up to MaxKeyLen, with one character that differs from   *)
(* the others; loadSettings applies maskApiKey to it.                         *)
MaxKeyLen == 44

MaskKeys ==
    {[i \in 1..n |-> IF i = p THEN "x" ELSE "a"] : n \in 0..MaxKeyLen, p \in 0..MaxKeyLen}

MaskInit ==
    /\ popup = NewPopup
    /\ sync \in [userId : {NoId}, openaiApiKey : MaskKeys, openaiKeyValid : {TRUE}]
    /\ local = [lastConnectedUser |-> NoId, recent |-> FALSE]
    /\ bg = [oauthState |-> [isInProgress |-> FALSE, completionData |-> NoData],
             interval |-> FALSE, notified |-> 0]
    /\ loads = {}
    /\ timers = {}
    /\ pollers = [i \in 1..MaxPollers |-> IdlePoller]
    /\ ticks = {}
    /\ bgTicks = [k \in 1..MaxBgTicks |-> IdleBgTick]
    /\ remote \in [up : BOOLEAN, statusOk : {TRUE}, linked : {{}}, latest : {NoId}]
    /\ hist = [bgStale |-> {}]

MaskSpec == MaskInit /\ [][Open \/ Reopen]_vars

\* C39: for the stored key, maskApiKey returns a value: the key itself when
\* it is shorter than 8, and otherwise its first 7 characters, then
\* min(32, length - 11) mask characters, then its last 4 characters.
C39_MaskShape ==
    LET key == sync.openaiApiKey
        n == Len(key)
        m == maskApiKey(key)
        count == IF 32 < n - 11 THEN 32 ELSE n - 11
    IN  /\ m.ok
        /\ m.value = IF n < 8 THEN key
                      ELSE SubSeq(key, 1, 7) \o [i \in 1..count |-> "*"] \o SubSeq(key, n - 3, n)

====
